---- MODULE Spec2Model ----
(***************************************************************************)
(* Model of openxr.py: the OpenXRManager class, the enumerated domains it  *)
(* maps attribute names to, the registry (winreg) it reads and writes, and *)
(* the command line driver in the __main__ block.                          *)
(***************************************************************************)
EXTENDS Integers, Sequences, FiniteSets, TLC

VARIABLES store, config_map, openxr_key, fs, ret, proc, exported

vars == <<store, config_map, openxr_key, fs, ret, proc, exported>>

(***************************************************************************)
(* Python values.  A value is an int, a str or None; the three are kept    *)
(* apart by a tag so that 1 and "1" are different values, as in Python.    *)
(***************************************************************************)
PyNone == [t |-> "none", i |-> 0, s |-> ""]

PyInt(n) == [t |-> "int", i |-> n, s |-> ""]

PyStr(x) == [t |-> "str", i |-> 0, s |-> x]

(* str.lower() on the attribute names the model uses *)
Lower(a) ==
  CASE a = "Turbo" -> "turbo"
    [] a = "Scaling_Type" -> "scaling_type"
    [] OTHER -> a

(* the strings int() accepts, with the integer each denotes *)
IntLiterals == {<<"7", 7>>, <<"1", 1>>, <<"0", 0>>, <<"-1", 0 - 1>>}

(* int(value): ok is FALSE where Python raises ValueError or TypeError *)
int(value) ==
  IF value.t = "int" THEN [ok |-> TRUE, exc |-> "", v |-> value]
  ELSE IF value.t = "none" THEN [ok |-> FALSE, exc |-> "TypeError", v |-> value]
  ELSE IF \E p \in IntLiterals : p[1] = value.s
       THEN [ok |-> TRUE, exc |-> "",
             v |-> PyInt((CHOOSE p \in IntLiterals : p[1] = value.s)[2])]
       ELSE [ok |-> FALSE, exc |-> "ValueError", v |-> value]

(***************************************************************************)
(* The enumerated domains: each class is its (name, value) members in      *)
(* definition order.                                                       *)
(***************************************************************************)
ScalingType == << <<"Off", 0>>, <<"NIS", 1>>, <<"FSR", 2>>, <<"CAS", 3>> >>

FirstRun == << <<"Off", 0>>, <<"On", 8>> >>

VariableShadingRateType == << <<"Off", 0>>, <<"Preset", 1>>, <<"Custom", 2>> >>

VRSRatio ==
  << <<"x1", 0>>, <<"x1_2", 1>>, <<"x1_4", 2>>, <<"x1_8", 3>>, <<"x1_16", 4>> >>

OnOff == << <<"Off", 0>>, <<"On", 1>> >>

DefaultOnOff == << <<"Default", 0>>, <<"Off", 1>>, <<"On", 2>> >>

MotionReprojectionRate ==
  << <<"Off", 1>>, <<"R_45Hz", 2>>, <<"R_30Hz", 3>>, <<"R_22Hz", 4>> >>

PostSunGlasses == << <<"Off", 0>>, <<"Light", 1>>, <<"Dark", 2>>, <<"Night", 3>> >>

OverlayType == << <<"Off", 0>>, <<"FPS", 1>>, <<"Advanced", 2>>, <<"Developer", 3>> >>

Members(cls) ==
  CASE cls = "ScalingType" -> ScalingType
    [] cls = "FirstRun" -> FirstRun
    [] cls = "VariableShadingRateType" -> VariableShadingRateType
    [] cls = "VRSRatio" -> VRSRatio
    [] cls = "OnOff" -> OnOff
    [] cls = "DefaultOnOff" -> DefaultOnOff
    [] cls = "MotionReprojectionRate" -> MotionReprojectionRate
    [] cls = "PostSunGlasses" -> PostSunGlasses
    [] cls = "OverlayType" -> OverlayType

(* ExtendedEnum.list: the member names, in definition order *)
list(cls) == [k \in 1..Len(Members(cls)) |-> Members(cls)[k][1]]

Labels(cls) == {Members(cls)[k][1] : k \in 1..Len(Members(cls))}

Codes(cls) == {Members(cls)[k][2] : k \in 1..Len(Members(cls))}

(* cls[name].value: the code of the member called name (KeyError if none) *)
CodeOf(cls, name) ==
  Members(cls)[CHOOSE k \in 1..Len(Members(cls)) : Members(cls)[k][1] = name][2]

(* cls(value).name: the name of the member whose value is code (ValueError if none) *)
NameOf(cls, code) ==
  Members(cls)[CHOOSE k \in 1..Len(Members(cls)) : Members(cls)[k][2] = code][1]

(* what a config_map entry can hold: an enum class, or (after map_data has *)
(* assigned to it) one member of that class; NoOptions is Python's None    *)
EnumClass(cls) == [kind |-> "class", enum |-> cls, name |-> ""]

EnumMember(cls, name) == [kind |-> "member", enum |-> cls, name |-> name]

NoOptions == [kind |-> "none", enum |-> "", name |-> ""]

(* the attribute mapping as OpenXRManager.__init__ builds it *)
InitConfigMap ==
  [a \in {"first_run2", "scaling_type", "vrs", "vrs_inner", "vrs_middle",
          "vrs_outer", "turbo", "override_resolution", "expert_menu",
          "overlay_show_clock", "overlay", "motion_reprojection",
          "motion_reprojection_rate", "vrs_cull_mask", "post_process",
          "post_sunglasses"} |->
     CASE a = "first_run2" -> EnumClass("FirstRun")
       [] a = "scaling_type" -> EnumClass("ScalingType")
       [] a = "vrs" -> EnumClass("VariableShadingRateType")
       [] a \in {"vrs_inner", "vrs_middle", "vrs_outer"} -> EnumClass("VRSRatio")
       [] a \in {"turbo", "override_resolution", "expert_menu",
                 "overlay_show_clock", "vrs_cull_mask", "post_process"} ->
            EnumClass("OnOff")
       [] a = "overlay" -> EnumClass("OverlayType")
       [] a = "motion_reprojection" -> EnumClass("DefaultOnOff")
       [] a = "motion_reprojection_rate" -> EnumClass("MotionReprojectionRate")
       [] a = "post_sunglasses" -> EnumClass("PostSunGlasses")]

(***************************************************************************)
(* The registry.  Under SOFTWARE\OpenXR_Toolkit each module is a key whose *)
(* values are (name, value, type) triples in enumeration order.            *)
(***************************************************************************)
REG_SZ == 1

REG_DWORD == 4

(* the child keys of the root path, in EnumKey order *)
Modules == <<"DCS World", "MSFS">>

InitStore ==
  [m \in {"DCS World", "MSFS"} |->
     IF m = "DCS World"
     THEN << <<"scaling_type", PyInt(0), REG_DWORD>>,
             <<"Turbo", PyInt(0), REG_DWORD>>,
             <<"sharpness", PyInt(7), REG_DWORD>>,
             <<"menu_font", PyStr("Arial"), REG_SZ>> >>
     ELSE << <<"world_scale", PyInt(100), REG_DWORD>> >>]

NoData == <<"", PyNone, 0>>

(* winreg.SetValueEx converts the value to the registry type or raises: a *)
(* REG_SZ takes a str or None, a REG_DWORD an int that is not negative    *)
(* (and below 2^32, which every integer of the model is)                  *)
SetValueExAccepts(type, value) ==
  IF type = REG_SZ THEN value.t \in {"str", "none"}
  ELSE value.t = "int" /\ value.i >= 0

(* index of the first setting called attr in cfg, 0 when there is none *)
IndexOf(cfg, attr) ==
  IF \E k \in 1..Len(cfg) : cfg[k][1] = attr
  THEN CHOOSE k \in 1..Len(cfg) :
         cfg[k][1] = attr /\ \A j \in 1..(k - 1) : cfg[j][1] # attr
  ELSE 0

(***************************************************************************)
(* OpenXRManager.  Each method is an operator from the state it reads to   *)
(* its outcome: exc names the exception it raises ("" when it returns),    *)
(* out is what it prints, opened and closed count the registry handles it  *)
(* opens and closes.                                                       *)
(***************************************************************************)

(* get_subkeys: enumerate the child keys of key inside "with key"; EnumKey *)
(* on a closed handle raises OSError, which suppress() swallows            *)
get_subkeys(key) == IF key = "open" THEN Modules ELSE <<>>

(* list_modules: the with block of get_subkeys closes self.openxr_key *)
list_modules(key) == [modules |-> get_subkeys(key), openxr_key |-> "closed"]

(* check_key: the key at path exists (FileNotFoundError gives None) *)
check_key(st, module) == module \in DOMAIN st

(* get_values: enumerate the values of the key, then close it *)
get_values(st, module) == st[module]

get_module_config(st, module) ==
  IF ~check_key(st, module)
  THEN [exc |-> "SystemExit", config |-> <<>>, opened |-> 0, closed |-> 0,
        out |-> << <<"Error: Can't read %s from registry", "None">> >>]
  ELSE [exc |-> "", config |-> get_values(st, module), opened |-> 1,
        closed |-> 1, out |-> <<>>]

(* a mapped setting's value is one of the member values of its enum class *)
IsCode(cls, v) == v.t = "int" /\ v.i \in Codes(cls)

(* map_data that looks the name up wrongly and so translates nothing *)
map_data_raw(cm, data) == [exc |-> "", mapped |-> data, config_map |-> cm]

map_data(cm, data) ==
  LET n == data[1]
      v == data[2]
      t == data[3]
  IN  IF n \in DOMAIN cm
      THEN IF cm[n].kind # "class"
           THEN [exc |-> "TypeError", mapped |-> NoData, config_map |-> cm]
           ELSE IF ~IsCode(cm[n].enum, v)
           THEN [exc |-> "ValueError", mapped |-> NoData, config_map |-> cm]
           ELSE LET member == EnumMember(cm[n].enum, NameOf(cm[n].enum, v.i))
                IN  [exc |-> "", mapped |-> <<n, PyStr(member.name), t>>,
                     config_map |-> [cm EXCEPT ![n] = member]]
      ELSE [exc |-> "", mapped |-> data, config_map |-> cm]

get_options(cm, attr) ==
  IF Lower(attr) \notin DOMAIN cm
  THEN [found |-> FALSE, options |-> NoOptions]
  ELSE [found |-> TRUE, options |-> cm[Lower(attr)]]

(* the store after SetValueEx(module_key, attr, 0, attr_type, value) *)
SetValueEx(st, module, attr, attr_type, value) ==
  [st EXCEPT ![module] =
     [k \in 1..Len(st[module]) |->
        IF st[module][k][1] = attr THEN <<attr, value, attr_type>>
        ELSE st[module][k]]]

(* lines 205-222, with cfg the outcome of get_module_config *)
set_module_value_in(cfg, st, module, attr, value) ==
  LET k == IndexOf(cfg.config, attr)
      attr_type == IF k = 0 THEN 0 ELSE cfg.config[k][3]
      conv == IF k # 0 /\ attr_type # REG_SZ THEN int(value)
              ELSE [ok |-> TRUE, exc |-> "", v |-> value]
      base == [exc |-> "", store |-> st, writes |-> <<>>, out |-> cfg.out,
               opened |-> cfg.opened, closed |-> cfg.closed]
  IN  IF cfg.exc # "" THEN [base EXCEPT !.exc = cfg.exc]
      ELSE IF ~conv.ok THEN [base EXCEPT !.exc = conv.exc]
      ELSE IF attr_type = 0
      THEN [base EXCEPT !.out = << <<"Can't find attr '%s' on module '%s'",
                                     attr, module>> >>]
      ELSE IF ~SetValueExAccepts(attr_type, conv.v)
      THEN [base EXCEPT !.exc = IF attr_type = REG_SZ THEN "ValueError"
                                ELSE "OverflowError",
                        !.opened = cfg.opened + 1]
      ELSE [base EXCEPT !.store = SetValueEx(st, module, attr, attr_type, conv.v),
                        !.writes = << <<module, attr, attr_type, conv.v>> >>,
                        !.opened = cfg.opened + 1,
                        !.closed = cfg.closed + 1]

set_module_value(st, module, attr, value) ==
  set_module_value_in(get_module_config(st, module), st, module, attr, value)

(* value in options.list() *)
InList(value, names) == \E k \in 1..Len(names) : value = PyStr(names[k])

(* truth value of the options object: None is false, an enum class or *)
(* member is true                                                     *)
Truthy(options) == options.kind # "none"

(* lines 197-198: set_module_value has been called with outcome r; return *)
(* True unless it raised                                                  *)
set_value_done(r) ==
  [exc |-> r.exc, ok |-> r.exc = "", raw_setter |-> TRUE, store |-> r.store,
   writes |-> r.writes, out |-> r.out, opened |-> r.opened,
   closed |-> r.closed]

(* set_value that writes first and validates the label afterwards *)
set_value_late_check(cm, st, module, attr, value) ==
  LET o == get_options(cm, attr)
  IN  [set_value_done(set_module_value(st, module, attr, value)) EXCEPT
         !.ok = @ /\ (o.found => InList(value, list(o.options.enum)))]

set_value(cm, st, module, attr, value) ==
  LET o == get_options(cm, attr)
      base == [exc |-> "", ok |-> FALSE, raw_setter |-> FALSE, store |-> st,
               writes |-> <<>>, out |-> <<>>, opened |-> 0, closed |-> 0]
  IN  IF o.found /\ ~InList(value, list(o.options.enum))
      THEN [base EXCEPT !.out = << <<"Value: '%s' for attr '%s' is not valid.",
                                     attr>> \o list(o.options.enum) >>]
      ELSE IF Truthy(o.options) /\ o.options.kind # "class"
      THEN [base EXCEPT !.exc = "TypeError"]
      ELSE set_value_done(
             set_module_value(st, module, attr,
                              IF Truthy(o.options)
                              THEN PyInt(CodeOf(o.options.enum, value.s))
                              ELSE value))

(***************************************************************************)
(* The JSON file.  json.dumps writes an int as a number, a str as a string *)
(* and None as null, keeping the order of the dict; json.loads reads them  *)
(* back.  The file is absent, not JSON, or a JSON object.                  *)
(***************************************************************************)
ToJson(v) ==
  CASE v.t = "int" -> [j |-> "number", i |-> v.i, s |-> ""]
    [] v.t = "str" -> [j |-> "string", i |-> 0, s |-> v.s]
    [] v.t = "none" -> [j |-> "null", i |-> 0, s |-> ""]

FromJson(x) ==
  CASE x.j = "number" -> PyInt(x.i)
    [] x.j = "string" -> PyStr(x.s)
    [] x.j = "null" -> PyNone

NoFile == [kind |-> "absent", items |-> <<>>]

Malformed == [kind |-> "malformed", items |-> <<>>]

(* save_config: config is the dict as its (key, value) items in order *)
save_config(config) ==
  [kind |-> "object",
   items |-> [k \in 1..Len(config) |-> <<config[k][1], ToJson(config[k][2])>>]]

read_from_file(file) ==
  IF file.kind = "absent"
  THEN [exc |-> "FileNotFoundError", data |-> <<>>, out |-> <<>>]
  ELSE IF file.kind = "malformed"
  THEN [exc |-> "SystemExit", data |-> <<>>,
        out |-> << <<"Can't load data from %s: %s">> >>]
  ELSE [exc |-> "", out |-> <<>>,
        data |-> [k \in 1..Len(file.items) |->
                    <<file.items[k][1], FromJson(file.items[k][2])>>]]

(***************************************************************************)
(* Calls on one OpenXRManager.  ret records the last call: its arguments   *)
(* and its outcome.                                                        *)
(***************************************************************************)
(* "IL-2" is a module that has no key in the registry *)
ModuleInputs == {"DCS World", "IL-2"}

AttrInputs == {"scaling_type", "Turbo", "sharpness", "menu_font", "bogus_attr"}

ValueInputs == {PyStr("FSR"), PyInt(1)}

NoCall ==
  [op |-> "__init__", module |-> "", attr |-> "", value |-> PyNone,
   data |-> NoData, exc |-> "", ok |-> FALSE, modules |-> <<>>,
   config |-> <<>>, mapped |-> NoData, found |-> FALSE, options |-> NoOptions,
   raw_setter |-> FALSE, writes |-> <<>>, opened |-> 0, closed |-> 0,
   out |-> <<>>, items |-> <<>>]

NoProc ==
  [cmd |-> "", module |-> "", attr |-> "", value |-> PyNone, file |-> FALSE,
   exit |-> 0, exc |-> "", out |-> <<>>, calls |-> <<>>]

(* the last export: the module, the settings read from it and the file written *)
NoExport == [module |-> "", config |-> <<>>, file |-> NoFile]

Init ==
  /\ store = InitStore
  /\ config_map = InitConfigMap
  /\ openxr_key = "open"
  /\ fs = NoFile
  /\ ret = NoCall
  /\ proc = NoProc
  /\ exported = NoExport

(* the manager after a call whose outcome is r *)
Did_list_modules(r) ==
  /\ openxr_key' = r.openxr_key
  /\ ret' = [NoCall EXCEPT !.op = "list_modules", !.modules = r.modules]
  /\ UNCHANGED <<store, config_map, fs, proc, exported>>

Call_list_modules ==
  /\ Did_list_modules(list_modules(openxr_key))

Did_get_module_config(r, module) ==
  /\ ret' = [NoCall EXCEPT !.op = "get_module_config", !.module = module,
                           !.exc = r.exc, !.config = r.config, !.out = r.out,
                           !.opened = r.opened, !.closed = r.closed]
  /\ UNCHANGED <<store, config_map, openxr_key, fs, proc, exported>>

Call_get_module_config ==
  /\ \E module \in ModuleInputs :
       Did_get_module_config(get_module_config(store, module), module)

Did_map_data(r, module, data) ==
  /\ config_map' = r.config_map
  /\ ret' = [NoCall EXCEPT !.op = "map_data", !.module = module,
                           !.data = data, !.exc = r.exc, !.mapped = r.mapped]
  /\ UNCHANGED <<store, openxr_key, fs, proc, exported>>

(* map_data is applied to a setting read from the registry *)
Call_map_data ==
  \E module \in DOMAIN store :
    \E k \in 1..Len(store[module]) :
      Did_map_data(map_data(config_map, store[module][k]), module,
                   store[module][k])

Did_get_options(r, attr) ==
  /\ ret' = [NoCall EXCEPT !.op = "get_options", !.attr = attr,
                           !.found = r.found, !.options = r.options]
  /\ UNCHANGED <<store, config_map, openxr_key, fs, proc, exported>>

Call_get_options ==
  /\ \E attr \in AttrInputs :
       Did_get_options(get_options(config_map, attr), attr)

Did_set_value(r, module, attr, value) ==
  /\ store' = r.store
  /\ ret' = [NoCall EXCEPT !.op = "set_value", !.module = module,
                           !.attr = attr, !.value = value, !.exc = r.exc,
                           !.ok = r.ok, !.raw_setter = r.raw_setter,
                           !.writes = r.writes, !.out = r.out,
                           !.opened = r.opened, !.closed = r.closed]
  /\ UNCHANGED <<config_map, openxr_key, fs, proc, exported>>

Call_set_value ==
  /\ \E module \in ModuleInputs, attr \in AttrInputs, value \in ValueInputs :
       Did_set_value(set_value(config_map, store, module, attr, value),
                     module, attr, value)

Did_set_module_value(r, module, attr, value) ==
  /\ store' = r.store
  /\ ret' = [NoCall EXCEPT !.op = "set_module_value", !.module = module,
                           !.attr = attr, !.value = value, !.exc = r.exc,
                           !.raw_setter = TRUE, !.writes = r.writes,
                           !.out = r.out, !.opened = r.opened,
                           !.closed = r.closed]
  /\ UNCHANGED <<config_map, openxr_key, fs, proc, exported>>

Call_set_module_value ==
  /\ \E module \in ModuleInputs, attr \in AttrInputs, value \in ValueInputs :
       Did_set_module_value(set_module_value(store, module, attr, value),
                            module, attr, value)

(* the dict of a module's raw settings: name -> value, in order *)
RawDict(cfg) == [k \in 1..Len(cfg) |-> <<cfg[k][1], cfg[k][2]>>]

Call_save_config ==
  /\ fs' = save_config(RawDict(InitStore["DCS World"]))
  /\ ret' = [NoCall EXCEPT !.op = "save_config"]
  /\ UNCHANGED <<store, config_map, openxr_key, proc, exported>>

Did_read_from_file(r) ==
  /\ ret' = [NoCall EXCEPT !.op = "read_from_file", !.exc = r.exc,
                           !.items = r.data, !.out = r.out]
  /\ UNCHANGED <<store, config_map, openxr_key, fs, proc, exported>>

Call_read_from_file ==
  /\ Did_read_from_file(read_from_file(fs))

Next ==
  \/ Call_list_modules
  \/ Call_get_module_config
  \/ Call_map_data
  \/ Call_get_options
  \/ Call_set_value
  \/ Call_set_module_value
  \/ Call_save_config
  \/ Call_read_from_file

Spec == Init /\ [][Next]_vars

(***************************************************************************)
(* The command line driver (the __main__ block).  One run is one process:  *)
(* it builds a new OpenXRManager, takes the first branch its arguments     *)
(* select and exits.  exit is the exit status (1 for an uncaught           *)
(* exception), calls the set_value calls the run made, in order.           *)
(***************************************************************************)
NoArgs ==
  [list |-> FALSE, get_config |-> FALSE, get |-> "", set |-> FALSE,
   attr |-> "", value |-> PyNone, file |-> FALSE, module |-> "DCS World"]

RECURSIVE MapConfig(_, _, _, _)
(* for data in config: map_data(data); parsed_config[k_name] = k_value *)
MapStep(r, config, k, parsed) ==
  IF r.exc # ""
  THEN [exc |-> r.exc, parsed |-> parsed, config_map |-> r.config_map]
  ELSE MapConfig(r.config_map, config, k + 1,
                 Append(parsed, <<r.mapped[1], r.mapped[2]>>))

MapConfig(cm, config, k, parsed) ==
  IF k > Len(config) THEN [exc |-> "", parsed |-> parsed, config_map |-> cm]
  ELSE MapStep(map_data(cm, config[k]), config, k, parsed)

RECURSIVE ApplyItems(_, _, _, _, _)
(* for item in config.items(): set_value(args.module, attr, value); acc is *)
(* the run so far, r the outcome of the set_value call for item k          *)
ApplyStep(r, cm, module, items, k, acc) ==
  IF r.exc # ""
  THEN [acc EXCEPT !.store = r.store,
                   !.calls = Append(@, <<items[k][1], items[k][2]>>),
                   !.out = @ \o r.out,
                   !.exc = r.exc,
                   !.exit = IF r.exc = "SystemExit" THEN 0 - 1 ELSE 1]
  ELSE ApplyItems(cm, module, items, k + 1,
                  [acc EXCEPT !.store = r.store,
                              !.calls = Append(@, <<items[k][1], items[k][2]>>),
                              !.out = @ \o r.out])

ApplyItems(cm, module, items, k, acc) ==
  IF k > Len(items) THEN acc
  ELSE ApplyStep(set_value(cm, acc.store, module, items[k][1], items[k][2]),
                 cm, module, items, k, acc)

(* bool(x) of a tuple: false only for the empty tuple *)
TupleTruthy(tuple) == Cardinality(DOMAIN tuple) > 0

(* hasattr(x, "list"): the enum classes and their members have it *)
HasList(x) == "kind" \in DOMAIN x

(* a process that has just built its OpenXRManager *)
Started(st, file) ==
  [exit |-> 0, exc |-> "", out |-> <<>>, store |-> st, fs |-> file,
   calls |-> <<>>, config_map |-> InitConfigMap, openxr_key |-> "open",
   config |-> <<>>, saved |-> FALSE]

(* if args.list *)
MainList(r, b) ==
  [b EXCEPT !.openxr_key = r.openxr_key,
            !.out = << <<"Avaliable modules">> >> \o
                    [k \in 1..Len(r.modules) |-> <<" - %s", r.modules[k]>>]]

(* if args.get_config, with the parsed configuration m *)
MainSave(m, c, args, b) ==
  IF m.exc # ""
  THEN [b EXCEPT !.exit = 1, !.exc = m.exc, !.config_map = m.config_map]
  ELSE [b EXCEPT !.config_map = m.config_map,
                 !.config = c.config,
                 !.saved = args.file,
                 !.fs = IF args.file THEN save_config(m.parsed) ELSE @,
                 !.out = << <<"Module: %s", args.module>> >>]

(* if args.get_config, with the module's configuration c *)
MainGetConfig(c, args, b) ==
  IF c.exc # ""
  THEN [b EXCEPT !.exit = 0 - 1, !.exc = c.exc, !.out = c.out]
  ELSE MainSave(MapConfig(b.config_map, c.config, 1, <<>>), c, args, b)

(* if args.get, with options the result of get_options *)
MainGet(options, args, b) ==
  IF ~TupleTruthy(options)
  THEN [b EXCEPT !.exit = 0 - 1,
                 !.out = << <<"Attr: %s has no available options. Try -l",
                              args.get>> >>]
  ELSE IF ~HasList(options)
  THEN [b EXCEPT !.exit = 1, !.exc = "AttributeError"]
  ELSE [b EXCEPT !.out = << <<"Available options for %s: %s", args.get>>
                            \o list(options.enum) >>]

(* if args.file, with f the result of read_from_file *)
MainLoad(f, args, b) ==
  IF f.exc = "SystemExit"
  THEN [b EXCEPT !.exit = 0 - 1, !.exc = f.exc, !.out = @ \o f.out]
  ELSE IF f.exc # ""
  THEN [b EXCEPT !.exit = 1, !.exc = f.exc]
  ELSE ApplyItems(b.config_map, args.module, f.data, 1, b)

MainFile(args, b) ==
  IF ~args.file THEN b ELSE MainLoad(read_from_file(b.fs), args, b)

(* if args.set, with r the outcome of set_value *)
MainSet(r, args, b) ==
  IF r.exc # ""
  THEN [b EXCEPT !.store = r.store, !.out = r.out,
                 !.calls = << <<args.attr, args.value>> >>,
                 !.exc = r.exc,
                 !.exit = IF r.exc = "SystemExit" THEN 0 - 1 ELSE 1]
  ELSE IF ~r.ok
  THEN [b EXCEPT !.store = r.store, !.out = r.out,
                 !.calls = << <<args.attr, args.value>> >>]
  ELSE MainFile(args, [b EXCEPT !.store = r.store, !.out = r.out,
                                !.calls = << <<args.attr, args.value>> >>])

Main(args, b) ==
  IF args.list THEN MainList(list_modules(b.openxr_key), b)
  ELSE IF args.get_config
  THEN MainGetConfig(get_module_config(b.store, args.module), args, b)
  ELSE IF args.get # ""
  THEN MainGet(get_options(b.config_map, args.get), args, b)
  ELSE IF args.set
  THEN MainSet(set_value(b.config_map, b.store, args.module, args.attr,
                         args.value), args, b)
  ELSE MainFile(args, b)

(***************************************************************************)
(* Runs of the command line.  proc records the last run; the file named by *)
(* -f is whatever the user has put there, or what an export wrote.         *)
(***************************************************************************)
MaxFileLen == 2

FileKeys == {"Turbo", "sharpness", "bogus_attr"}

FileValues == {ToJson(PyStr("On")), ToJson(PyInt(1))}

(* JSON objects of at most MaxFileLen items with distinct keys *)
UserObjects ==
  UNION {{items \in [1..n -> FileKeys \X FileValues] :
            \A i, j \in 1..n : i # j => items[i][1] # items[j][1]} :
         n \in 0..MaxFileLen}

UserFiles ==
  {NoFile, Malformed} \cup {[kind |-> "object", items |-> x] : x \in UserObjects}

CliModules == {"DCS World", "IL-2"}

CliValues == {PyStr("FSR"), PyStr("On"), PyStr("1")}

InitCLI ==
  /\ store = InitStore
  /\ config_map = InitConfigMap
  /\ openxr_key = "open"
  /\ fs = NoFile
  /\ ret = NoCall
  /\ proc = NoProc
  /\ exported = NoExport

(* the state a process leaves behind and its outcome r *)
Exited(r, cmd, args) ==
  /\ store' = r.store
  /\ fs' = r.fs
  /\ config_map' = r.config_map
  /\ openxr_key' = r.openxr_key
  /\ proc' = [cmd |-> cmd, module |-> args.module, attr |-> args.attr,
              value |-> args.value, file |-> args.file, exit |-> r.exit,
              exc |-> r.exc, out |-> r.out, calls |-> r.calls]
  /\ exported' = IF r.saved
                 THEN [module |-> args.module, config |-> r.config,
                       file |-> r.fs]
                 ELSE exported
  /\ UNCHANGED ret

(* one process: run Main on args *)
Run(cmd, args) == Exited(Main(args, Started(store, fs)), cmd, args)

RunList ==
  /\ Run("list", [NoArgs EXCEPT !.list = TRUE])

RunGetConfig ==
  /\ \E module \in CliModules, f \in BOOLEAN :
       Run("get_config", [NoArgs EXCEPT !.get_config = TRUE,
                                        !.module = module, !.file = f])

RunGet ==
  /\ \E attr \in AttrInputs :
       Run("get", [NoArgs EXCEPT !.get = attr, !.attr = attr])

RunSet ==
  /\ \E module \in CliModules, attr \in AttrInputs, value \in CliValues :
       Run("set", [NoArgs EXCEPT !.set = TRUE, !.module = module,
                                 !.attr = attr, !.value = value])

RunFile ==
  /\ \E module \in CliModules :
       Run("file", [NoArgs EXCEPT !.file = TRUE, !.module = module])

NextCLI ==
  \/ RunList
  \/ RunGetConfig
  \/ RunGet
  \/ RunSet
  \/ RunFile

SpecCLI == InitCLI /\ [][NextCLI]_vars

(* bulk loads of a file the user wrote *)
InitBulk ==
  /\ store = InitStore
  /\ config_map = InitConfigMap
  /\ openxr_key = "open"
  /\ fs \in UserFiles
  /\ ret = NoCall
  /\ proc = NoProc
  /\ exported = NoExport

NextBulk == RunFile

SpecBulk == InitBulk /\ [][NextBulk]_vars

(***************************************************************************)
(* Properties.                                                             *)
(***************************************************************************)

(* the attribute, lower-cased, has a domain in the attribute mapping *)
HasDomain(attr) == Lower(attr) \in DOMAIN InitConfigMap

DomainOf(attr) == InitConfigMap[Lower(attr)].enum

IsLabel(attr, value) == value.t = "str" /\ value.s \in Labels(DomainOf(attr))

HasSetting(st, module, attr) ==
  module \in DOMAIN st /\ \E k \in 1..Len(st[module]) : st[module][k][1] = attr

TypeOfSetting(st, module, attr) ==
  st[module][CHOOSE k \in 1..Len(st[module]) : st[module][k][1] = attr][3]

(* C1: a set_value call whose attr has a domain and whose value is not one *)
(* of the domain's labels returns False, does not call set_module_value    *)
(* and leaves the whole store as it was, whatever calls came before it.    *)
C1_InvalidLabelRejected ==
  [][(ret'.op = "set_value" /\ HasDomain(ret'.attr)
        /\ ~IsLabel(ret'.attr, ret'.value))
     => (ret'.exc = "" /\ ~ret'.ok /\ ~ret'.raw_setter /\ ret'.writes = <<>>
           /\ store' = store)]_vars

(* C1 witness: an invalid label was rejected on a manager whose mapping    *)
(* entry for the attribute had already been replaced by map_data           *)
C1_Witness ==
  /\ ret.op = "set_value"
  /\ ret.attr = "scaling_type"
  /\ ~IsLabel(ret.attr, ret.value)
  /\ ~ret.ok
  /\ config_map["scaling_type"].kind = "member"

(* C2: a set_value call with a valid label for an attr that exists in the  *)
(* module with numeric type makes exactly one write: attr becomes the      *)
(* label's numeric code under the type it had, all else is unchanged.      *)
C2_ValidLabelWritesCode ==
  [][(ret'.op = "set_value" /\ HasDomain(ret'.attr)
        /\ IsLabel(ret'.attr, ret'.value)
        /\ HasSetting(store, ret'.module, ret'.attr)
        /\ TypeOfSetting(store, ret'.module, ret'.attr) = REG_DWORD)
     => (/\ ret'.writes =
              << <<ret'.module, ret'.attr, REG_DWORD,
                   PyInt(CodeOf(DomainOf(ret'.attr), ret'.value.s))>> >>
         /\ DOMAIN store' = DOMAIN store
         /\ \A m \in DOMAIN store :
              /\ Len(store'[m]) = Len(store[m])
              /\ \A k \in 1..Len(store[m]) :
                   store'[m][k] =
                     IF m = ret'.module /\ store[m][k][1] = ret'.attr
                     THEN <<ret'.attr,
                            PyInt(CodeOf(DomainOf(ret'.attr), ret'.value.s)),
                            REG_DWORD>>
                     ELSE store[m][k])]_vars

(* C3: a set_value call for an attr the module does not have writes        *)
(* nothing and returns False.                                              *)
C3_AbsentAttrFails ==
  (ret.op = "set_value" /\ ret.module \in DOMAIN store
     /\ ~HasSetting(store, ret.module, ret.attr))
  => (ret.writes = <<>> /\ ret.exc = "" /\ ~ret.ok)

(* C4: -g ATTR prints the labels of ATTR's domain and exits 0 when ATTR    *)
(* has a domain, and prints the "has no available options" line and exits  *)
(* nonzero when it has none.                                               *)
C4_GetPrintsLabels ==
  proc.cmd = "get"
  => IF HasDomain(proc.attr)
     THEN /\ proc.exit = 0
          /\ proc.out = << <<"Available options for %s: %s", proc.attr>>
                           \o list(DomainOf(proc.attr)) >>
     ELSE /\ proc.exit # 0
          /\ proc.out = << <<"Attr: %s has no available options. Try -l",
                             proc.attr>> >>

(* C5: a bulk load (-f alone) of a JSON object into an existing module     *)
(* calls set_value once for every key of the file, in file order, whatever *)
(* the earlier keys did.                                                   *)
C5_EveryKeyApplied ==
  (proc.cmd = "file" /\ fs.kind = "object" /\ proc.module \in DOMAIN store)
  => proc.calls = [k \in 1..Len(fs.items) |->
                     <<fs.items[k][1], FromJson(fs.items[k][2])>>]

(* C6: the attribute mapping built by the constructor never changes.       *)
C6_ConfigMapNeverMutated == config_map = InitConfigMap

(* C7: map_data of a setting whose name is in the mapping and whose value  *)
(* is a code of the domain returns the name, the label defined for that    *)
(* code and the type, on every call.                                       *)
C7_MapDataDecodes ==
  (ret.op = "map_data" /\ ret.data[1] \in DOMAIN InitConfigMap
     /\ IsCode(InitConfigMap[ret.data[1]].enum, ret.data[2]))
  => /\ ret.exc = ""
     /\ \E k \in 1..Len(Members(InitConfigMap[ret.data[1]].enum)) :
          /\ Members(InitConfigMap[ret.data[1]].enum)[k][2] = ret.data[2].i
          /\ ret.mapped =
               <<ret.data[1],
                 PyStr(Members(InitConfigMap[ret.data[1]].enum)[k][1]),
                 ret.data[3]>>

(* C8: get_module_config and set_module_value close every registry handle *)
(* they open, whether they return or raise.                                *)
C8_HandlesReleased ==
  ret.op \in {"get_module_config", "set_module_value"}
  => ret.opened = ret.closed

(* C9: every list_modules call returns the child keys of the root path.    *)
C9_ListModulesFresh == ret.op = "list_modules" => ret.modules = Modules

(* C10 as stated: after an export of a module and any set_value calls, an  *)
(* import of the exported file into the module gives every exported        *)
(* setting the value and type it had at export, whatever the case of its   *)
(* name.                                                                   *)
ImportedExport ==
  /\ proc.cmd = "file"
  /\ exported.module # ""
  /\ proc.module = exported.module
  /\ fs = exported.file

C10_RoundTripAnyCase ==
  ImportedExport
  => \A k \in 1..Len(exported.config) :
       store[exported.module][k] = exported.config[k]

(* the name is spelled as the mapping spells it, or is no mapped name in   *)
(* any letter case                                                         *)
ExactName(name) == HasDomain(name) => name \in DOMAIN InitConfigMap

(* C10 amended: the import restores every exported setting whose name is   *)
(* spelled exactly as in the attribute mapping or is not a mapped name in  *)
(* any letter case.                                                        *)
C10_RoundTripExactNames ==
  ImportedExport
  => \A k \in 1..Len(exported.config) :
       ExactName(exported.config[k][1])
       => store[exported.module][k] = exported.config[k]

(* C10 witness: an import of the exported file ran to its end after a set  *)
(* had changed the module: "Turbo" still differs from the export while the *)
(* settings with exact names are back                                      *)
C10_Witness ==
  /\ ImportedExport
  /\ proc.exit = 0
  /\ Len(proc.calls) = Len(exported.config)
  /\ \E k \in 1..Len(exported.config) :
       store[exported.module][k] # exported.config[k]
  /\ \E k \in 1..Len(exported.config) :
       /\ exported.config[k][1] \in DOMAIN InitConfigMap
       /\ store[exported.module][k] = exported.config[k]

====
